---- MODULE Spec2Model ----
(***************************************************************************)
(* Viral Arcade (ViralArcade.jsx): the React component as a state machine. *)
(*                                                                         *)
(* React state cells are the variables.  A handler (button, frame callback,*)
(* interval callback) applies its queued setState calls in order as one    *)
(* batched render; the passive effects of that render run in FlushEffects  *)
(* before the next handler.  The frame callback reads the values captured  *)
(* by the render that created the game-loop effect (cl), not the live      *)
(* cells.  The multiplier is kept in thousandths (1.0 = 1000), times in ms.*)
(* Positions are abstracted: which orbs the player touches in a frame is   *)
(* an input of the frame.  Timers are not tied to the clock: the interval  *)
(* callback and the frame callback may fire whenever they are scheduled    *)
(* (browsers delay and throttle both); a frame's timestamp is later than   *)
(* the previous frame's.  All setState calls of a callback are batched     *)
(* into one render (React 18).  The best score starts at 0 (first session, *)
(* nothing stored).                                                        *)
(*                                                                         *)
(* The game specifications (Spec, SpecLong, SpecRun, SpecDifficulty) model *)
(* the cells the game rules read.  The cells that only the render reads    *)
(* (the notice and its timeouts, the player position) and the environment  *)
(* (storage, clipboard, share sheet, audio) have specifications of their   *)
(* own (SpecNotice, SpecPointer, SpecStore, SpecAudio) and keep their      *)
(* initial values in the game specifications, where audio and storage work *)
(* and a frame records the notices it raises in frameLog.                  *)
(***************************************************************************)
EXTENDS Integers, Sequences, FiniteSets, TLC

VARIABLES running, paused, score, best, combo, mult, streak,
          slowmo, magnet, x2, badges,
          orbs, lastTs, now,
          cl, raf, decayTimer, dirty, frameLog,
          difficulty, played,
          flash, timeouts,
          player, dragging,
          storage, mounted, thrown,
          clipboard, sharing

(* cl: the values the game-loop closure captured; raf, decayTimer: how many
   frame callbacks / 80 ms intervals are scheduled; dirty: the effects the
   last render has still to run; frameLog: what the last frame touched, the
   notices it raised and how many orbs its TTL test dropped (a record of the
   frame, read only by properties); difficulty: the memo of the score;
   played: the time spent running and unpaused since the last frame, counted
   while a buff timer is active (read only by properties); flash, timeouts: the notice shown and the
   deadlines of the pending setTimeout callbacks that clear it; player,
   dragging: the normalized position and the drag flag of the pointer
   effect; storage: the text under the key viral_arcade_best; mounted: a
   session is open; thrown: an exception has escaped a handler; clipboard,
   sharing: the clipboard text and where the share action stands *)
noticeVars == <<flash, timeouts>>

pointerVars == <<player, dragging>>

storeVars == <<storage, mounted>>

shareVars == <<clipboard, sharing>>

vars == <<running, paused, score, best, combo, mult, streak,
          slowmo, magnet, x2, badges, orbs, lastTs, now,
          cl, raf, decayTimer, dirty, frameLog,
          difficulty, played, flash, timeouts, player, dragging,
          storage, mounted, thrown, clipboard, sharing>>

----------------------------------------------------------------------------
(* Bounds of the model *)

MaxOrbs == 2

(* slow frames: the clock of Spec and SpecLong advances TimeStep ms at a time *)
TimeStep == 1000
MaxTime == 4010
LongTime == 6010

(* fast frames: the clock of SpecRun advances FrameStep ms at a time *)
FrameStep == 4
RunTime == 60

----------------------------------------------------------------------------
(* Helpers *)

Max(a, b) == IF a >= b THEN a ELSE b
Min(a, b) == IF a <= b THEN a ELSE b

clamp(v, a, b) == Max(a, Min(b, v))

One == 1000

Milestones == <<200, 600, 1200, 2500, 4000, 6000>>

Kinds == {"good", "bad", "power"}

(* rand(5000, 10000): the shortest life, and a longer one *)
TtlSet == {5000, 6000}

PowerChoices == {"slow", "magnet", "x2"}

InSeq(x, s) == \E i \in 1..Len(s) : s[i] = x

(* Math.round(10 * mult * f), mult in thousandths: round half up *)
collectInc(m, f) == (m * f + 50) \div 100

(* Number((1 + Math.floor(streak / 25) * 0.2).toFixed(1)) clamped to [1, 4] *)
toFixed1(m) == ((m + 50) \div 100) * 100

streakMult(s) == clamp(toFixed1(One + (s \div 25) * 200), One, 4 * One)

(* the decay without its clamp *)
decayNoClamp(m) == (m * 995) \div 1000

(* clamp(m * 0.995, 1, 5) *)
decayMult(m) == clamp((m * 995) \div 1000, One, 5 * One)

(* difficulty.spawnRate * dt >= 1, with spawnRate = 0.9 + min(1, s/5000) * 2.2
   and dt in ms: (45000 + 22 * min(5000, s)) * dt >= 50000 * 1000 *)
spawnRate50k(s) == 45000 + 22 * Min(5000, s)

spawnCertain(s, dt) == spawnRate50k(s) * dt >= 50000 * 1000

spawnPossible(s, dt) == spawnRate50k(s) * dt > 0

(* the difficulty memo with t not capped at 1 *)
difficultyNoCap(s) ==
  [spawnRate |-> 90000 + 44 * s, speed |-> 7000000 + 3400 * s,
   badShare |-> 35000 + 5 * s, powerChance |-> 8000 + s]

(* the difficulty memo, in 1/100000ths: with t = Math.min(1, score / 5000) in
   1/5000ths, 0.9 + t * 2.2, 70 + t * 170, 0.35 + t * 0.25, 0.08 + t * 0.05 *)
difficultyOf(s) ==
  LET t == Min(5000, s)
  IN  [spawnRate |-> 90000 + 44 * t, speed |-> 7000000 + 3400 * t,
       badShare |-> 35000 + 5 * t, powerChance |-> 8000 + t]

(* cleanup and body of a scheduling effect that leave what was scheduled *)
rescheduleNoCancel(n, active) == n + (IF active THEN 1 ELSE 0)

(* cleanup and body of a scheduling effect, on the number n of callbacks
   scheduled: the cleanup cancels the one the effect holds (if it is still
   pending), the body schedules one if the run is active *)
reschedule(n, active) == (IF n > 0 THEN n - 1 ELSE 0) + (IF active THEN 1 ELSE 0)

----------------------------------------------------------------------------
(* JSON text of the stored value: a text is a sequence of characters *)

Digits == <<"0", "1", "2", "3", "4", "5", "6", "7", "8", "9">>

isDigit(ch) == \E d \in 1..10 : Digits[d] = ch

digitVal(ch) == (CHOOSE d \in 1..10 : Digits[d] = ch) - 1

(* JSON.stringify of an integer *)
RECURSIVE stringify(_)
stringify(n) ==
  IF n < 0 THEN <<"-">> \o stringify(0 - n)
  ELSE IF n < 10 THEN <<Digits[n + 1]>>
  ELSE Append(stringify(n \div 10), Digits[(n % 10) + 1])

RECURSIVE numVal(_)
numVal(txt) ==
  IF txt = <<>> THEN 0
  ELSE numVal(SubSeq(txt, 1, Len(txt) - 1)) * 10 + digitVal(txt[Len(txt)])

(* the JSON grammar of an integer without sign: 0, or digits not led by 0 *)
isJsonNat(txt) ==
  /\ Len(txt) >= 1
  /\ \A i \in 1..Len(txt) : isDigit(txt[i])
  /\ Len(txt) = 1 \/ txt[1] # "0"

(* JSON.parse on the texts of the model: ok = FALSE is a SyntaxError *)
JSONparse(txt) ==
  IF isJsonNat(txt) THEN [ok |-> TRUE, val |-> numVal(txt)]
  ELSE IF Len(txt) >= 2 /\ txt[1] = "-" /\ isJsonNat(Tail(txt))
       THEN [ok |-> TRUE, val |-> 0 - numVal(Tail(txt))]
  ELSE [ok |-> FALSE, val |-> 0]

(* the initializer of useLocalStorage without its try / catch *)
loadNoCatch(st) ==
  IF st.blocked THEN [val |-> 0, thrown |-> TRUE]
  ELSE IF st.item = <<>> \/ st.item = << <<>> >> THEN [val |-> 0, thrown |-> FALSE]
  ELSE [val |-> JSONparse(st.item[1]).val, thrown |-> ~JSONparse(st.item[1]).ok]

(* the initializer of useLocalStorage(key, 0): raw ? JSON.parse(raw) : 0 in a
   try whose catch returns 0.  st.blocked: getItem and setItem throw;
   st.item: <<>> (getItem returns null) or <<text>> *)
load(st) ==
  IF st.blocked THEN [val |-> 0, thrown |-> FALSE]
  ELSE IF st.item = <<>> \/ st.item = << <<>> >> THEN [val |-> 0, thrown |-> FALSE]
  ELSE IF JSONparse(st.item[1]).ok
       THEN [val |-> JSONparse(st.item[1]).val, thrown |-> FALSE]
  ELSE [val |-> 0, thrown |-> FALSE]

(* the effect of useLocalStorage: setItem(key, JSON.stringify(val)) in a try
   whose catch does nothing *)
save(st, v) == IF st.blocked THEN st ELSE [st EXCEPT !.item = <<stringify(v)>>]

----------------------------------------------------------------------------
(* The cells a render shows, as one record *)

Cells ==
  [running |-> running, paused |-> paused, score |-> score, best |-> best,
   combo |-> combo, mult |-> mult, streak |-> streak,
   slowmo |-> slowmo, magnet |-> magnet, x2 |-> x2, badges |-> badges,
   orbs |-> orbs, resched |-> FALSE]

(* What the game-loop effect's closure captured from the render that created it *)
capture(s) ==
  [score |-> s.score, combo |-> s.combo, mult |-> s.mult,
   slowmo |-> s.slowmo, magnet |-> s.magnet, x2 |-> s.x2, badges |-> s.badges]

(* Effects whose dependency lists differ between render a and render b *)
changedDeps(a, b, moved) ==
  (IF \/ a.running # b.running \/ a.paused # b.paused \/ a.score # b.score
      \/ a.slowmo # b.slowmo \/ a.magnet # b.magnet \/ a.x2 # b.x2 \/ moved
   THEN {"loop"} ELSE {})
  \cup (IF a.running # b.running \/ a.paused # b.paused THEN {"decay"} ELSE {})
  \cup (IF a.streak # b.streak THEN {"streak"} ELSE {})
  \cup (IF a.best # b.best THEN {"persist"} ELSE {})

(* Write a record of cells back to the variables *)
Write(s) ==
  /\ running' = s.running
  /\ paused' = s.paused
  /\ score' = s.score
  /\ best' = s.best
  /\ combo' = s.combo
  /\ mult' = s.mult
  /\ streak' = s.streak
  /\ slowmo' = s.slowmo
  /\ magnet' = s.magnet
  /\ x2' = s.x2
  /\ badges' = s.badges
  /\ orbs' = s.orbs
  /\ difficulty' = difficultyOf(s.score)

(* one batched render of a handler: the cells, and the effects it leaves *)
Commit(s, moved) ==
  /\ Write(s)
  /\ dirty' = changedDeps(Cells, s, moved)

----------------------------------------------------------------------------
InitGame ==
  /\ running = FALSE
  /\ paused = FALSE
  /\ score = 0
  /\ best = 0
  /\ combo = 0
  /\ mult = One
  /\ streak = 0
  /\ slowmo = 0
  /\ magnet = 0
  /\ x2 = 0
  /\ badges = <<>>
  /\ orbs = <<>>
  /\ lastTs = <<>>
  /\ now = 0
  /\ cl = capture(Cells)
  /\ raf = 0
  /\ decayTimer = 0
  /\ dirty = {}
  /\ frameLog = [touched |-> <<>>, toasts |-> <<>>, expired |-> 0,
                 alive |-> 0, threw |-> FALSE]
  /\ difficulty = difficultyOf(0)
  /\ played = 0
  /\ flash = <<>>
  /\ timeouts = {}
  /\ player = [x |-> 500, y |-> 500]
  /\ dragging = FALSE
  /\ thrown = FALSE
  /\ clipboard = <<>>
  /\ sharing = [phase |-> "idle", score |-> 0]

(* a first session: nothing was stored, and the mount has saved the 0 *)
Init ==
  /\ InitGame
  /\ mounted = TRUE
  /\ storage = [blocked |-> FALSE, item |-> <<stringify(0)>>]

----------------------------------------------------------------------------
(* State transitions of the game state manager, on a record of cells *)

(* startGame without the three buff-timer resets *)
startGameKeepsBuffs(s) ==
  [s EXCEPT !.score = 0, !.combo = 0, !.mult = One, !.streak = 0,
            !.badges = <<>>, !.orbs = <<>>, !.running = TRUE, !.paused = FALSE]

startGame(s) ==
  [s EXCEPT !.score = 0, !.combo = 0, !.mult = One, !.streak = 0,
            !.slowmo = 0, !.magnet = 0, !.x2 = 0, !.badges = <<>>,
            !.orbs = <<>>, !.running = TRUE, !.paused = FALSE]

(* endGame storing the score without comparing it to the best *)
endGameOverwrite(s, c) ==
  [s EXCEPT !.running = FALSE, !.paused = FALSE, !.streak = 0, !.combo = 0,
            !.mult = One, !.best = c.score]

(* endGame reads the score of the render that created the loop *)
endGame(s, c) ==
  [s EXCEPT !.running = FALSE, !.paused = FALSE, !.streak = 0, !.combo = 0,
            !.mult = One,
            !.best = IF c.score > @ THEN c.score ELSE @]

(* the badge test without its crossing condition *)
badgeDueNoCrossing(sc, m, b) == sc < m /\ ~InSeq(m, b)

(* score < m && score + 1 >= m && !badges.includes(m), on the captured values *)
badgeDue(sc, m, b) == sc < m /\ sc + 1 >= m /\ ~InSeq(m, b)

RECURSIVE awardBadges(_, _, _)
awardBadges(s, c, i) ==
  IF i > Len(Milestones) THEN s
  ELSE awardBadges(
         IF badgeDue(c.score, Milestones[i], c.badges)
         THEN [s EXCEPT !.badges = Append(@, Milestones[i])]
         ELSE s,
         c, i + 1)

(* collectGood without the cap of the streak at 100 *)
collectGoodNoCap(s, c) ==
  LET inc == collectInc(c.mult, IF c.x2 > 0 THEN 2 ELSE 1)
      s1 == [s EXCEPT !.score = @ + inc, !.combo = @ + 1, !.streak = @ + 5]
      s2 == IF c.combo + 1 = 10 THEN [s1 EXCEPT !.x2 = 4000] ELSE s1
      s3 == IF (c.combo + 1) % 15 = 0 THEN [s2 EXCEPT !.slowmo = 3000] ELSE s2
  IN  IF (c.combo + 1) % 20 = 0 THEN [s3 EXCEPT !.magnet = 4000] ELSE s3

collectGood(s, c) ==
  LET inc == collectInc(c.mult, IF c.x2 > 0 THEN 2 ELSE 1)
      s1 == [s EXCEPT !.score = @ + inc, !.combo = @ + 1,
                      !.streak = Min(100, @ + 5)]
      s2 == IF c.combo + 1 = 10 THEN [s1 EXCEPT !.x2 = 4000] ELSE s1
      s3 == IF (c.combo + 1) % 15 = 0 THEN [s2 EXCEPT !.slowmo = 3000] ELSE s2
  IN  IF (c.combo + 1) % 20 = 0 THEN [s3 EXCEPT !.magnet = 4000] ELSE s3

collectPower(s, choice) ==
  CASE choice = "slow" -> [s EXCEPT !.slowmo = 3500]
    [] choice = "magnet" -> [s EXCEPT !.magnet = 5000]
    [] OTHER -> [s EXCEPT !.x2 = 6000]

handleCollect(s, c, o, choice) ==
  awardBadges(IF o.kind = "good" THEN collectGood(s, c)
              ELSE collectPower(s, choice),
              c, 1)

(* orbsRef.current.filter(x => x.id !== o.id): ids are unique (idRef++); in
   the model the birth time is, since a frame spawns at most one orb and
   frame timestamps increase *)
removeOrb(list, o) == SelectSeq(list, LAMBDA x : x # o)

(* the TTL test with <= for < *)
aliveUntil(o, t) == t - o.bornAt <= o.ttl

(* the TTL test of the move loop *)
alive(o, t) == t - o.bornAt < o.ttl

(* the collision loop over the copy snap of the orb list; out[i] says whether
   orb i touches the player (and, for a power orb, the random effect drawn) *)
RECURSIVE collide(_, _, _, _, _)
collide(s, c, snap, out, i) ==
  IF i > Len(snap) THEN [s EXCEPT !.resched = TRUE]
  ELSE IF out[i] = "miss" THEN collide(s, c, snap, out, i + 1)
  ELSE IF snap[i].kind = "bad" THEN endGame(s, c)
  ELSE collide([handleCollect(s, c, snap[i], out[i])
                  EXCEPT !.orbs = removeOrb(@, snap[i])],
               c, snap, out, i + 1)

(* what the collision loop touched, in order, up to the first hazard *)
RECURSIVE touched(_, _, _)
touched(snap, out, i) ==
  IF i > Len(snap) THEN <<>>
  ELSE IF out[i] = "miss" THEN touched(snap, out, i + 1)
  ELSE IF snap[i].kind = "bad" THEN <<"bad">>
  ELSE <<snap[i].kind>> \o touched(snap, out, i + 1)

(* the collision loop when the first tone request of the frame throws: the
   exception leaves tick at the beep call, after the setState calls and
   toasts that precede it in handleCollect (line 272 / 282) or before
   endGame() (line 247); nothing after it runs, the frame is not rescheduled *)
RECURSIVE collideBeepThrows(_, _, _, _, _)
collideBeepThrows(s, c, snap, out, i) ==
  IF i > Len(snap) THEN [s EXCEPT !.resched = TRUE]
  ELSE IF out[i] = "miss" THEN collideBeepThrows(s, c, snap, out, i + 1)
  ELSE IF snap[i].kind = "bad" THEN s
  ELSE IF snap[i].kind = "good" THEN collectGood(s, c)
  ELSE collectPower(s, out[i])

(* the notices handleCollect raises for one orb, in order *)
collectToasts(c, o, choice) ==
  IF o.kind = "good"
  THEN (IF c.combo + 1 = 10 THEN <<"x2 Active!">> ELSE <<>>)
       \o (IF (c.combo + 1) % 15 = 0 THEN <<"SLOW-MO!">> ELSE <<>>)
       \o (IF (c.combo + 1) % 20 = 0 THEN <<"MAGNET!">> ELSE <<>>)
  ELSE CASE choice = "slow" -> <<"Slow Motion">>
         [] choice = "magnet" -> <<"Magnet Field">>
         [] OTHER -> <<"Score x2">>

(* the notices the collision loop raises, in order, up to the first hazard *)
RECURSIVE toasts(_, _, _, _)
toasts(c, snap, out, i) ==
  IF i > Len(snap) THEN <<>>
  ELSE IF out[i] = "miss" THEN toasts(c, snap, out, i + 1)
  ELSE IF snap[i].kind = "bad" THEN <<>>
  ELSE collectToasts(c, snap[i], out[i]) \o toasts(c, snap, out, i + 1)

(* the first element of a sequence, as a sequence *)
First(s) == IF s = <<>> THEN <<>> ELSE <<s[1]>>

(* the collectToasts of the first orb touched *)
RECURSIVE firstToasts(_, _, _, _)
firstToasts(c, snap, out, i) ==
  IF i > Len(snap) THEN <<>>
  ELSE IF out[i] = "miss" THEN firstToasts(c, snap, out, i + 1)
  ELSE IF snap[i].kind = "bad" THEN <<>>
  ELSE collectToasts(c, snap[i], out[i])

Outcomes(snap) ==
  {f \in [1..Len(snap) -> {"miss", "hit"} \cup PowerChoices] :
     \A i \in 1..Len(snap) :
        f[i] \in {"miss"} \cup
                 (IF snap[i].kind = "power" THEN PowerChoices ELSE {"hit"})}

(* the timers block of tick: an active timer (as captured) loses dt *)
tickTimers(s, c, dt) ==
  [s EXCEPT !.slowmo = IF c.slowmo > 0 THEN Max(0, @ - dt) ELSE @,
            !.magnet = IF c.magnet > 0 THEN Max(0, @ - dt) ELSE @,
            !.x2 = IF c.x2 > 0 THEN Max(0, @ - dt) ELSE @]

(* spawnOrb, or no spawn: the orb lists tick may continue with *)
Spawns(list, c, dt, kinds, ttls) ==
  (IF spawnCertain(c.score, dt) THEN {} ELSE {list})
  \cup (IF spawnPossible(c.score, dt) /\ Len(list) < MaxOrbs
        THEN {Append(list, [kind |-> k, bornAt |-> now, ttl |-> t]) :
                k \in kinds, t \in ttls}
        ELSE {})

NoticeLife == 1200

(* a notice that is cleared after half the time *)
toastShort(n, msg, t) ==
  [flash |-> <<[msg |-> msg, at |-> t]>>,
   timeouts |-> n.timeouts \cup {t + NoticeLife \div 2}]

(* toast(msg) at time t on the notice n = [flash, timeouts]: setFlash(msg) and
   setTimeout(() => setFlash(null), 1200).  The notice carries the time it
   was raised (read only by properties); timeouts raised in the same frame
   have the same deadline and the same effect, and are kept as one *)
toast(n, msg, t) ==
  [flash |-> <<[msg |-> msg, at |-> t]>>,
   timeouts |-> n.timeouts \cup {t + NoticeLife}]

RECURSIVE raise(_, _, _, _)
raise(n, msgs, t, i) ==
  IF i > Len(msgs) THEN n ELSE raise(toast(n, msgs[i], t), msgs, t, i + 1)

----------------------------------------------------------------------------
(* The pointer effect: the arena rectangle and the pointer coordinates *)

ArenaLeft == 100
ArenaTop == 50
ArenaWidth == 400
ArenaHeight == 200

(* pointer offsets from the arena's corner: outside on both sides, on the
   edges, and inside *)
Offsets(size) ==
  {0 - 30, 0 - 1, 0, 1, size \div 8, size \div 4, size \div 2,
   (3 * size) \div 4, size - 1, size, size + 30}

PointerXs == {ArenaLeft + d : d \in Offsets(ArenaWidth)}

PointerYs == {ArenaTop + d : d \in Offsets(ArenaHeight)}

(* toNorm without the clamps *)
toNormNoClamp(eX, eY) ==
  [x |-> ((eX - ArenaLeft) * 1000) \div ArenaWidth,
   y |-> ((eY - ArenaTop) * 1000) \div ArenaHeight]

(* toNorm, in thousandths of the arena's width and height *)
toNorm(eX, eY) ==
  [x |-> clamp(((eX - ArenaLeft) * 1000) \div ArenaWidth, 0, 1000),
   y |-> clamp(((eY - ArenaTop) * 1000) \div ArenaHeight, 0, 1000)]

----------------------------------------------------------------------------
(* The stored texts a session may find *)

MaxLen == 2

Chars == {"0", "1", "2", "3", "4", "5", "6", "7", "8", "9", "-", "x"}

Texts == UNION {[1..n -> Chars] : n \in 0..MaxLen}

Stores ==
  {[blocked |-> TRUE, item |-> <<>>]}
  \cup {[blocked |-> FALSE, item |-> i] : i \in {<<>>} \cup {<<txt>> : txt \in Texts}}

(* the values a session sets the best score to *)
MaxBest == 12

(* the cells of a fresh component whose best score was loaded as b *)
Fresh(b) ==
  [running |-> FALSE, paused |-> FALSE, score |-> 0, best |-> b,
   combo |-> 0, mult |-> One, streak |-> 0,
   slowmo |-> 0, magnet |-> 0, x2 |-> 0, badges |-> <<>>,
   orbs |-> <<>>, resched |-> FALSE]

----------------------------------------------------------------------------
(* the overlays of the render *)
welcomeOverlay == ~running

pauseOverlay == running /\ paused

gameOverOverlay == ~running /\ score > 0

----------------------------------------------------------------------------
(* Actions *)

envVars == <<flash, timeouts, player, dragging, storage, mounted, thrown,
             clipboard, sharing>>

cells == <<running, paused, score, best, combo, mult, streak, slowmo, magnet,
           x2, badges, orbs, difficulty>>

(* Start / Play Again buttons, rendered while not running *)
StartGame ==
  /\ dirty = {}
  /\ ~running
  /\ Commit(startGame(Cells), FALSE)
  /\ lastTs' = <<>>
  /\ played' = 0
  /\ UNCHANGED <<now, cl, raf, decayTimer, frameLog, envVars>>

(* one animation frame: the callback tick(ts) with ts = now, on the cells and
   the loop.  beepOk: the tone requests of the frame return; otherwise the
   first one throws *)
Frame(kinds, ttls, beepOk) ==
  /\ dirty = {}
  /\ raf > 0
  /\ IF lastTs = <<>> THEN TRUE ELSE now > lastTs[1]
  /\ LET dt == IF lastTs = <<>> THEN 0 ELSE now - lastTs[1]
         s0 == tickTimers(Cells, cl, dt)
     IN  \E spawned \in Spawns(orbs, cl, dt, kinds, ttls) :
           LET moved == SelectSeq(spawned, LAMBDA o : alive(o, now))
           IN  \E out \in Outcomes(moved) :
                 LET hits == touched(moved, out, 1)
                     s1 == IF beepOk
                           THEN collide([s0 EXCEPT !.orbs = moved], cl, moved, out, 1)
                           ELSE collideBeepThrows([s0 EXCEPT !.orbs = moved],
                                                  cl, moved, out, 1)
                 IN  /\ IF beepOk THEN TRUE ELSE hits # <<>>
                     /\ Commit(s1, FALSE)
                     /\ raf' = raf - 1 + (IF s1.resched THEN 1 ELSE 0)
                     /\ frameLog' =
                          [touched |-> IF beepOk THEN hits ELSE First(hits),
                           toasts |-> IF beepOk THEN toasts(cl, moved, out, 1)
                                      ELSE firstToasts(cl, moved, out, 1),
                           expired |-> Len(spawned) - Len(moved),
                           alive |-> Len(moved),
                           threw |-> ~beepOk]
  /\ thrown' = (thrown \/ ~beepOk)
  /\ lastTs' = <<now>>
  /\ played' = 0
  /\ UNCHANGED <<now, cl, decayTimer, player, dragging, storage, mounted,
                 clipboard, sharing>>

(* a frame with working audio *)
Tick(kinds, ttls) == Frame(kinds, ttls, TRUE) /\ UNCHANGED noticeVars

(* a frame with working audio, with the notices it raises; a timeout that
   is due runs before the frame *)
TickNotice(kinds, ttls) ==
  /\ \A d \in timeouts : d > now
  /\ Frame(kinds, ttls, TRUE)
  /\ LET n == raise([flash |-> flash, timeouts |-> timeouts],
                    frameLog'.toasts, now, 1)
     IN  flash' = n.flash /\ timeouts' = n.timeouts

(* a frame whose first tone request throws *)
TickBeepThrows(kinds, ttls) == Frame(kinds, ttls, FALSE) /\ UNCHANGED noticeVars

(* the 80 ms interval callback *)
DecayTick ==
  /\ dirty = {}
  /\ decayTimer > 0
  /\ Commit([Cells EXCEPT !.streak = Max(0, @ - 2), !.mult = decayMult(@)], FALSE)
  /\ UNCHANGED <<lastTs, now, cl, raf, decayTimer, frameLog, played, envVars>>

(* a pause button that is also offered while no run is in progress *)
TogglePauseAnytime ==
  /\ dirty = {}
  /\ Commit([Cells EXCEPT !.paused = ~@], FALSE)
  /\ UNCHANGED <<lastTs, now, cl, raf, decayTimer, frameLog, played, envVars>>

(* header pause button (rendered while running) and the Resume button *)
TogglePause ==
  /\ dirty = {}
  /\ running
  /\ Commit([Cells EXCEPT !.paused = ~@], FALSE)
  /\ UNCHANGED <<lastTs, now, cl, raf, decayTimer, frameLog, played, envVars>>

(* Reset Best button of the welcome overlay, on the cells *)
ResetBest ==
  /\ dirty = {}
  /\ ~running
  /\ Commit([Cells EXCEPT !.best = 0], FALSE)
  /\ UNCHANGED <<lastTs, now, cl, raf, decayTimer, frameLog, played, envVars>>

(* a pointer event that re-creates the position object with the coordinates
   it has: setPlayer with a fresh object *)
PlayerMove ==
  /\ dirty = {}
  /\ Commit(Cells, TRUE)
  /\ UNCHANGED <<lastTs, now, cl, raf, decayTimer, frameLog, played, envVars>>

(* the passive effects of the last render, in declaration order *)
FlushEffects ==
  /\ dirty # {}
  /\ IF "persist" \in dirty
     THEN storage' = save(storage, best)
     ELSE UNCHANGED storage
  /\ IF "loop" \in dirty
     THEN cl' = capture(Cells) /\ raf' = reschedule(raf, running /\ ~paused)
     ELSE UNCHANGED <<cl, raf>>
  /\ IF "decay" \in dirty
     THEN decayTimer' = reschedule(decayTimer, running /\ ~paused)
     ELSE UNCHANGED decayTimer
  /\ IF "streak" \in dirty
     THEN mult' = streakMult(streak)
     ELSE UNCHANGED mult
  /\ dirty' = {}
  /\ UNCHANGED <<running, paused, score, best, combo, streak, slowmo, magnet,
                 x2, badges, orbs, difficulty, lastTs, now, frameLog, played,
                 flash, timeouts, player, dragging, mounted, thrown,
                 clipboard, sharing>>

(* the clock; a timeout that is due runs before the clock moves on *)
TimePasses(d, limit) ==
  /\ dirty = {}
  /\ now + d <= limit
  /\ \A e \in timeouts : e > now
  /\ now' = now + d
  /\ played' = IF /\ running /\ ~paused /\ lastTs # <<>>
                  /\ (slowmo > 0 \/ magnet > 0 \/ x2 > 0)
               THEN played + d
               ELSE played
  /\ UNCHANGED <<cells, lastTs, cl, raf, decayTimer, dirty, frameLog, envVars>>

(* a setTimeout callback of toast, at or after its deadline: setFlash(null) *)
ToastTimeout ==
  /\ dirty = {}
  /\ \E d \in timeouts :
       /\ now >= d
       /\ timeouts' = timeouts \ {d}
  /\ flash' = <<>>
  /\ UNCHANGED <<cells, lastTs, now, cl, raf, decayTimer, dirty, frameLog,
                 played, player, dragging, storage, mounted, thrown,
                 clipboard, sharing>>

(* Share button of the game-over overlay: shareScore up to its await.
   native: navigator.share exists in this browser *)
ShareClick ==
  /\ dirty = {}
  /\ gameOverOverlay
  /\ sharing.phase \notin {"native", "copying"}
  /\ \E native \in BOOLEAN :
       sharing' = [phase |-> IF native THEN "native" ELSE "copying",
                   score |-> score]
  /\ UNCHANGED <<cells, lastTs, now, cl, raf, decayTimer, dirty, frameLog,
                 played, flash, timeouts, player, dragging, storage, mounted,
                 thrown, clipboard>>

(* navigator.share resolves *)
ShareResolves ==
  /\ dirty = {}
  /\ sharing.phase = "native"
  /\ sharing' = [sharing EXCEPT !.phase = "shared"]
  /\ UNCHANGED <<cells, lastTs, now, cl, raf, decayTimer, dirty, frameLog,
                 played, flash, timeouts, player, dragging, storage, mounted,
                 thrown, clipboard>>

(* navigator.share rejects (failure, or the user dismisses the sheet): the
   catch is empty *)
ShareRejects ==
  /\ dirty = {}
  /\ sharing.phase = "native"
  /\ sharing' = [sharing EXCEPT !.phase = "dismissed"]
  /\ UNCHANGED <<cells, lastTs, now, cl, raf, decayTimer, dirty, frameLog,
                 played, flash, timeouts, player, dragging, storage, mounted,
                 thrown, clipboard>>

(* clipboard.writeText resolves: toast("Copied! Share anywhere") *)
CopyResolves ==
  /\ dirty = {}
  /\ sharing.phase = "copying"
  /\ sharing' = [sharing EXCEPT !.phase = "copied"]
  /\ clipboard' = <<sharing.score>>
  /\ LET n == toast([flash |-> flash, timeouts |-> timeouts],
                    "Copied! Share anywhere", now)
     IN  flash' = n.flash /\ timeouts' = n.timeouts
  /\ UNCHANGED <<cells, lastTs, now, cl, raf, decayTimer, dirty, frameLog,
                 played, player, dragging, storage, mounted, thrown>>

(* clipboard.writeText rejects: the catch is empty *)
CopyRejects ==
  /\ dirty = {}
  /\ sharing.phase = "copying"
  /\ sharing' = [sharing EXCEPT !.phase = "copyFailed"]
  /\ UNCHANGED <<cells, lastTs, now, cl, raf, decayTimer, dirty, frameLog,
                 played, flash, timeouts, player, dragging, storage, mounted,
                 thrown, clipboard>>

(* mousedown / touchstart on the arena *)
onDown(eX, eY) ==
  /\ dirty = {}
  /\ dragging' = TRUE
  /\ player' = toNorm(eX, eY)
  /\ Commit(Cells, TRUE)
  /\ UNCHANGED <<lastTs, now, cl, raf, decayTimer, frameLog, played, flash,
                 timeouts, storage, mounted, thrown, clipboard, sharing>>

(* mousemove / touchmove on the window: ignored unless dragging *)
onMove(eX, eY) ==
  /\ dirty = {}
  /\ dragging
  /\ player' = toNorm(eX, eY)
  /\ Commit(Cells, TRUE)
  /\ UNCHANGED <<lastTs, now, cl, raf, decayTimer, frameLog, played, flash,
                 timeouts, dragging, storage, mounted, thrown, clipboard,
                 sharing>>

(* mouseup / touchend on the window *)
onUp ==
  /\ dirty = {}
  /\ dragging' = FALSE
  /\ UNCHANGED <<cells, lastTs, now, cl, raf, decayTimer, dirty, frameLog,
                 played, flash, timeouts, player, storage, mounted, thrown,
                 clipboard, sharing>>

(* a session opens: the component is constructed, the best score is loaded
   from the storage, and every effect of the first render is due *)
Mount ==
  /\ ~mounted
  /\ mounted' = TRUE
  /\ Write(Fresh(load(storage).val))
  /\ thrown' = load(storage).thrown
  /\ dirty' = {"persist", "loop", "decay", "streak"}
  /\ lastTs' = <<>>
  /\ played' = 0
  /\ flash' = <<>>
  /\ player' = [x |-> 500, y |-> 500]
  /\ dragging' = FALSE
  /\ sharing' = [phase |-> "idle", score |-> 0]
  /\ UNCHANGED <<now, cl, raf, decayTimer, frameLog, timeouts, storage,
                 clipboard>>

(* the session closes: its callbacks are gone with the page *)
Close ==
  /\ mounted
  /\ dirty = {}
  /\ mounted' = FALSE
  /\ raf' = 0
  /\ decayTimer' = 0
  /\ timeouts' = {}
  /\ UNCHANGED <<cells, lastTs, now, cl, dirty, frameLog, played, flash,
                 player, dragging, storage, thrown, clipboard, sharing>>

(* setBest(v): a run ends with the new best v, or Reset Best (v = 0) *)
SetBest(v) ==
  /\ mounted
  /\ dirty = {}
  /\ v # best
  /\ Commit([Cells EXCEPT !.best = v], FALSE)
  /\ UNCHANGED <<lastTs, now, cl, raf, decayTimer, frameLog, played, envVars>>

----------------------------------------------------------------------------
(* Specifications *)

(* every kind of orb, slow frames *)
Next ==
  \/ StartGame
  \/ Tick(Kinds, {5000})
  \/ DecayTick
  \/ TogglePause
  \/ ResetBest
  \/ PlayerMove
  \/ FlushEffects
  \/ TimePasses(TimeStep, MaxTime)

Spec == Init /\ [][Next]_vars

(* long enough for an orb to outlive its time-to-live; no power orbs spawn *)
NextLong ==
  \/ StartGame
  \/ Tick({"good", "bad"}, TtlSet)
  \/ DecayTick
  \/ TogglePause
  \/ ResetBest
  \/ PlayerMove
  \/ FlushEffects
  \/ TimePasses(TimeStep, LongTime)

SpecLong == Init /\ [][NextLong]_vars

(* one run of fast frames, shorter than the first 80 ms interval period, in
   which only good orbs spawn *)
NextRun ==
  \/ StartGame
  \/ Tick({"good"}, {5000})
  \/ FlushEffects
  \/ TimePasses(FrameStep, RunTime)

SpecRun == Init /\ [][NextRun]_vars

(* the notices and the share action: runs without pause, with the notices
   the frames raise and the timeouts that clear them *)
NextNotice ==
  \/ StartGame
  \/ TickNotice(Kinds, {5000})
  \/ FlushEffects
  \/ TimePasses(TimeStep, MaxTime)
  \/ ToastTimeout
  \/ ShareClick
  \/ ShareResolves
  \/ ShareRejects
  \/ CopyResolves
  \/ CopyRejects

SpecNotice == Init /\ [][NextNotice]_vars

(* the pointer handlers, with pointer coordinates inside and outside the arena *)
NextPointer ==
  \/ \E eX \in PointerXs, eY \in PointerYs : onDown(eX, eY)
  \/ \E eX \in PointerXs, eY \in PointerYs : onMove(eX, eY)
  \/ onUp
  \/ FlushEffects

SpecPointer == Init /\ [][NextPointer]_vars

(* sessions over a storage that holds any text, nothing, or is blocked *)
InitStore ==
  /\ InitGame
  /\ mounted = FALSE
  /\ storage \in Stores

NextStore ==
  \/ Mount
  \/ Close
  \/ \E v \in 0..MaxBest : SetBest(v)
  \/ FlushEffects

SpecStore == InitStore /\ [][NextStore]_vars

(* runs in which tone requests may throw *)
NextAudio ==
  \/ StartGame
  \/ Tick({"good", "bad"}, {5000})
  \/ TickBeepThrows({"good", "bad"}, {5000})
  \/ PlayerMove
  \/ FlushEffects
  \/ TimePasses(TimeStep, MaxTime)

SpecAudio == Init /\ [][NextAudio]_vars

(* runs that have reached a score around the cap of the difficulty curve:
   every orb so far was collected at multiplier 1.0 without score-double *)
DiffTime == 20

Scores == {0, 10, 2500, 4980, 4990, 5000, 5010, 6000}

InitDifficulty ==
  /\ score \in Scores
  /\ combo = score \div 10
  /\ best = 0
  /\ running = TRUE
  /\ paused = FALSE
  /\ mult = One
  /\ streak = 0
  /\ slowmo = 0
  /\ magnet = 0
  /\ x2 = 0
  /\ badges = <<>>
  /\ orbs = <<>>
  /\ lastTs = <<0>>
  /\ now = 0
  /\ cl = capture(Cells)
  /\ raf = 1
  /\ decayTimer = 1
  /\ dirty = {}
  /\ frameLog = [touched |-> <<>>, toasts |-> <<>>, expired |-> 0,
                 alive |-> 0, threw |-> FALSE]
  /\ difficulty = difficultyOf(score)
  /\ played = 0
  /\ flash = <<>>
  /\ timeouts = {}
  /\ player = [x |-> 500, y |-> 500]
  /\ dragging = FALSE
  /\ thrown = FALSE
  /\ clipboard = <<>>
  /\ sharing = [phase |-> "idle", score |-> 0]
  /\ mounted = TRUE
  /\ storage = [blocked |-> FALSE, item |-> <<stringify(0)>>]

NextDifficulty ==
  \/ Tick({"good"}, {5000})
  \/ FlushEffects
  \/ TimePasses(FrameStep, DiffTime)

SpecDifficulty == InitDifficulty /\ [][NextDifficulty]_vars

(* a run continued from the state SpecRun reaches at 60 ms with the longest
   streak (15 good orbs in 15 frames: streak 75, multiplier 1.6, the loop
   still holding 1.4), now with the 80 ms interval firing *)
StreakTime == 84

InitStreak ==
  /\ running = TRUE
  /\ paused = FALSE
  /\ score = 172
  /\ best = 0
  /\ combo = 15
  /\ mult = 1600
  /\ streak = 75
  /\ slowmo = 0
  /\ magnet = 0
  /\ x2 = 0
  /\ badges = <<>>
  /\ orbs = <<>>
  /\ lastTs = <<60>>
  /\ now = 60
  /\ cl = [score |-> 172, combo |-> 15, mult |-> 1400, slowmo |-> 0,
           magnet |-> 0, x2 |-> 0, badges |-> <<>>]
  /\ raf = 1
  /\ decayTimer = 1
  /\ dirty = {}
  /\ frameLog = [touched |-> <<"good", "good">>, toasts |-> <<>>,
                 expired |-> 0, alive |-> 2, threw |-> FALSE]
  /\ difficulty = difficultyOf(172)
  /\ played = 0
  /\ flash = <<>>
  /\ timeouts = {}
  /\ player = [x |-> 500, y |-> 500]
  /\ dragging = FALSE
  /\ thrown = FALSE
  /\ clipboard = <<>>
  /\ sharing = [phase |-> "idle", score |-> 0]
  /\ mounted = TRUE
  /\ storage = [blocked |-> FALSE, item |-> <<stringify(0)>>]

NextStreak ==
  \/ Tick({"good"}, {5000})
  \/ DecayTick
  \/ FlushEffects
  \/ TimePasses(FrameStep, StreakTime)

SpecStreak == InitStreak /\ [][NextStreak]_vars

----------------------------------------------------------------------------
(* Properties *)

(* a step that is one animation frame: only tick stores a timestamp *)
IsTick == lastTs' # lastTs /\ lastTs' # <<>>

(* a run has ended: not running, and a frame has run since the last start *)
Ended == ~running /\ lastTs # <<>>

(* C1: every step that starts a run (not running -> running) leaves score,
   combo and streak 0, the multiplier 1, the three buff timers 0, the badge
   list and the orb list empty, and the state running and unpaused *)
C1_StartResets ==
  [][(~running /\ running') =>
       /\ score' = 0 /\ combo' = 0 /\ streak' = 0 /\ mult' = One
       /\ slowmo' = 0 /\ magnet' = 0 /\ x2' = 0
       /\ badges' = <<>> /\ orbs' = <<>>
       /\ running' /\ ~paused']_vars

(* a run just started (no frame yet, effects pending) after an earlier run
   that had scored *)
C1_Witness ==
  running /\ ~paused /\ lastTs = <<>> /\ "decay" \in dirty /\ best > 0

(* C2: a frame that hits a hazard ends the run and leaves the best score at
   max(previous best, final score of the run) *)
C2_BestIsMaxOfFinalScore ==
  [][(IsTick /\ frameLog'.touched # <<>>
        /\ frameLog'.touched[Len(frameLog'.touched)] = "bad") =>
       (~running' /\ best' = Max(best, score'))]_vars

C4_CollectUsesLiveMultiplier ==
  [][(IsTick /\ frameLog'.touched = <<"good">>) =>
       score' = score + collectInc(mult, IF x2 > 0 THEN 2 ELSE 1)]_vars

(* C5: a frame whose collections take the combo to or past 10 sets the
   score-double timer (4000 by the combo, 6000 if a power orb then replaces
   it), and one that takes it to or past 15 sets slow motion (3000, or 3500
   by a power orb) *)
C5_ComboBuffsOnEveryValue ==
  [][(IsTick /\ running') =>
       /\ (combo < 10 /\ combo' >= 10) => x2' \in {4000, 6000}
       /\ (combo < 15 /\ combo' >= 15) => slowmo' \in {3000, 3500}]_vars

(* C6: the multiplier is in [1, 5] in every state, also between the decay
   and the streak effect that follows it, and in [1, 4] once the effects of a
   render have run *)
C6_MultiplierInRange ==
  /\ mult >= One /\ mult <= 5 * One
  /\ dirty = {} => mult <= 4 * One

(* the decay has lowered a multiplier above 1 and the streak effect has not
   run yet *)
C6_Witness == "streak" \in dirty /\ mult > One /\ mult % 100 # 0

(* C7 as stated: no orb of the list is older than its time-to-live *)
C7_NoOrbPastTtl ==
  \A i \in 1..Len(orbs) : now - orbs[i].bornAt < orbs[i].ttl

(* C7 amended: after a frame at time t the list holds no orb whose
   time-to-live had run out at t (between frames, and while paused or ended,
   an orb stays until the next frame or start); and a frame that touches
   nothing removes no orb still within its time-to-live *)
C7_ExpiryAtFrames ==
  /\ [](\A i \in 1..Len(orbs) :
          lastTs # <<>> => lastTs[1] - orbs[i].bornAt < orbs[i].ttl)
  /\ [][(IsTick /\ frameLog'.touched = <<>>) =>
          \A i \in 1..Len(orbs) :
             now - orbs[i].bornAt < orbs[i].ttl => InSeq(orbs[i], orbs')]_vars

(* a frame has dropped an orb whose time-to-live ran out *)
C7_Witness == frameLog.expired > 0 /\ running

(* C8: a frame records the badge of threshold m exactly when the score goes
   from below m to m or above and the badge is not recorded yet *)
C8_BadgeOnCrossing ==
  [][IsTick =>
       \A i \in 1..Len(Milestones) :
          (InSeq(Milestones[i], badges') /\ ~InSeq(Milestones[i], badges))
            <=> (score < Milestones[i] /\ score' >= Milestones[i]
                   /\ ~InSeq(Milestones[i], badges))]_vars

C10_GameOverShownWhenEnded == Ended => gameOverOverlay

(* C11: at most one of the welcome, pause and game-over overlays is rendered *)
C11_AtMostOneOverlay ==
  /\ ~(welcomeOverlay /\ pauseOverlay)
  /\ ~(welcomeOverlay /\ gameOverOverlay)
  /\ ~(pauseOverlay /\ gameOverOverlay)

(* C18: paused implies running in every state, and every step that ends a
   run leaves the paused flag false *)
C18_PausedOnlyWhileRunning ==
  /\ [](paused => running)
  /\ [][(running /\ ~running') => ~paused']_vars

(* a run that has scored is paused *)
C18_Witness == running /\ paused /\ score > 0 /\ dirty = {}

(* C15: the difficulty memo of every render is, in 1/100000ths, the line from
   0.9 / 70 / 0.35 / 0.08 at score 0 to 3.1 / 240 / 0.60 / 0.13 at score 5000
   (written without the division: 5 * value = 5 * base + slope / 1000 * score)
   and stays at the latter for every score above *)
C15_DifficultyCurve ==
  /\ score = 0 =>
       difficulty = [spawnRate |-> 90000, speed |-> 7000000,
                     badShare |-> 35000, powerChance |-> 8000]
  /\ score >= 5000 =>
       difficulty = [spawnRate |-> 310000, speed |-> 24000000,
                     badShare |-> 60000, powerChance |-> 13000]
  /\ (score >= 0 /\ score <= 5000) =>
       /\ 5 * difficulty.spawnRate = 5 * 90000 + 220 * score
       /\ 5 * difficulty.speed = 5 * 7000000 + 17000 * score
       /\ 5 * difficulty.badShare = 5 * 35000 + 25 * score
       /\ 5 * difficulty.powerChance = 5 * 8000 + 5 * score

(* a frame has collected an orb and taken the score above 5000 *)
C15_Witness ==
  score > 5000 /\ frameLog.touched # <<>> /\ cl.score <= 5000 /\ dirty # {}

(* a stored text that is not JSON: a character that is no digit or sign, a
   sign that is not in front or has no digit after it, or a leading zero *)
Unparseable(txt) ==
  \/ \E i \in 1..Len(txt) : txt[i] = "x" \/ (i > 1 /\ txt[i] = "-")
  \/ txt = <<"-">>
  \/ Len(txt) >= 2 /\ txt[1] = "0"
  \/ Len(txt) >= 3 /\ txt[1] = "-" /\ txt[2] = "0"

(* C12: no load or save raises; a session that opens over the text saved for
   v loads v (0 included), over no entry, an empty or an unparseable text (or
   a blocked storage) it loads 0; and whatever a session writes is the JSON
   text of its best score *)
C12_StoreRoundTrip ==
  /\ [](~thrown)
  /\ [][(~mounted /\ mounted') =>
          /\ \A v \in 0..MaxBest :
                storage = [blocked |-> FALSE, item |-> <<stringify(v)>>]
                  => best' = v
          /\ (storage.blocked \/ storage.item = <<>>) => best' = 0
          /\ (storage.item # <<>> /\ storage.item[1] = <<>>) => best' = 0
          /\ (storage.item # <<>> /\ Unparseable(storage.item[1]))
                => best' = 0]_vars
  /\ [][(mounted /\ storage' # storage) =>
          storage'.item = <<stringify(best)>>]_vars

(* a session has loaded the largest value that an earlier session saved *)
C12_Witness ==
  /\ mounted /\ dirty = {} /\ best = MaxBest
  /\ storage = [blocked |-> FALSE, item |-> <<stringify(MaxBest)>>]

(* C14: both coordinates of the player position are in [0, 1] (0..1000
   thousandths) in every state, whatever pointer coordinates the press, move
   and release events carry *)
C14_PlayerInUnitSquare ==
  /\ player.x >= 0 /\ player.x <= 1000
  /\ player.y >= 0 /\ player.y <= 1000

(* a drag has left the arena to the left of and below it *)
C14_Witness == dragging /\ player = [x |-> 0, y |-> 1000]

(* C16: no buff timer is ever negative, and a frame (after the first of the
   run, and touching no orb) takes from each active buff timer the time spent
   running and unpaused since the previous frame, and no more: time spent
   paused is not charged *)
C16_PauseNotCharged ==
  /\ [](slowmo >= 0 /\ magnet >= 0 /\ x2 >= 0)
  /\ [][(IsTick /\ lastTs # <<>> /\ frameLog'.touched = <<>>) =>
          /\ slowmo' = Max(0, slowmo - played)
          /\ magnet' = Max(0, magnet - played)
          /\ x2' = Max(0, x2 - played)]_vars

(* a step that is one callback of the 80 ms interval lowering the streak *)
IsDecay == streak' < streak /\ running' = running

(* C17: at most one frame callback and at most one 80 ms interval are
   scheduled in every state; once the effects of a render have run none is
   scheduled unless the run is in progress and not paused; and every frame
   and every decay step happens in a run that is in progress and not paused *)
C17_OneLoopOnlyWhileActive ==
  /\ [](raf <= 1 /\ decayTimer <= 1)
  /\ [](dirty = {} => ((raf > 0 \/ decayTimer > 0) => (running /\ ~paused)))
  /\ [][(IsTick \/ IsDecay) => (running /\ ~paused)]_vars

(* a replay in which a buff was activated, after its loop was re-created *)
C17_Witness ==
  /\ running /\ ~paused /\ dirty = {} /\ best > 0 /\ slowmo > 0
  /\ raf = 1 /\ decayTimer = 1

(* C13: when the native share call settles it has either succeeded or the
   action goes on to copy the message to the clipboard; and a copy that
   succeeds leaves the message on the clipboard and raises the notice
   "Copied! Share anywhere" *)
C13_ShareFallsBackToCopy ==
  [][/\ (sharing.phase = "native" /\ sharing'.phase # "native")
          => sharing'.phase \in {"shared", "copying"}
     /\ (sharing.phase = "copying" /\ sharing'.phase = "copied")
          => /\ clipboard' = <<sharing.score>>
             /\ flash' # <<>>
             /\ flash'[1].msg = "Copied! Share anywhere"]_vars

(* the notices of the buff activations *)
BuffNotices ==
  {"x2 Active!", "SLOW-MO!", "MAGNET!", "Slow Motion", "Magnet Field", "Score x2"}

(* C20: the notice of a buff activation is cleared no earlier than 1200 ms
   after it was raised *)
C20_NoticeStaysItsTime ==
  [][(flash # <<>> /\ flash' = <<>> /\ flash[1].msg \in BuffNotices)
       => now >= flash[1].at + NoticeLife]_vars

(* C19: a frame whose tone request throws still ends the run when the orb
   touched is a hazard, and otherwise still removes the collected orb and
   schedules the next frame *)
C19_BeepFailureHarmless ==
  [][(IsTick /\ frameLog'.threw) =>
       /\ frameLog'.touched = <<"bad">> => ~running'
       /\ frameLog'.touched # <<"bad">> =>
            (Len(orbs') < frameLog'.alive /\ raf' > 0)]_vars

(* C21: the streak never exceeds 100 and the multiplier never exceeds 1.8
   (1800 thousandths), in settled states and between a handler and the
   effects of its render alike *)
C21_MultiplierAtMostOnePointEight == streak <= 100 /\ mult <= 1800

(* the streak is full and its effect has set the multiplier to 1.8 *)
C21_Witness == streak = 100 /\ mult = 1800 /\ dirty = {}

====
